---- MODULE Spec2Model ----
(***************************************************************************)
(* sqlectron-db-core: the DatabaseSession / ServerSession connection       *)
(* lifecycle (database.ts, server.ts), the SSH tunnel (tunnel.ts) and the  *)
(* cancellable query handle of the adapters (postgresql, mysql, sqlite,    *)
(* sqlserver).                                                             *)
(*                                                                         *)
(* Object identities are small naturals; 0 is JavaScript's null.  Every    *)
(* connect() invocation has an id c; the adapter it constructs and the     *)
(* tunnel it requests carry the same id, so adapter[c] / tunnel[c] are     *)
(* "the adapter / tunnel made by invocation c".  A tunnel's listening      *)
(* address (server.address()) is identified with the tunnel's id.          *)
(***************************************************************************)
EXTENDS Naturals, FiniteSets, Sequences, TLC

\* ------------------------------------------------------------------ bounds
MaxDb == 2      \* Database objects ever constructed by createConnection
MaxCalls == 2   \* accepted connect() invocations over the whole run

Handles == 1..MaxDb
Calls == 1..MaxCalls

\* database names a caller passes to createConnection ("" is "no name given")
DbNames == {"", "main"}

\* Server.createConnection / removeDatabase: const dbKey = dbName || 'undefined'
DbKey(name) == IF name = "" THEN "undefined" ELSE name

DbKeys == {DbKey(n) : n \in DbNames}

VARIABLES
  ssh,        \* server.config.ssh is set
  databases,  \* Server.databases: key -> Database (0: no such property)
  sshTunnel,  \* Server.sshTunnel (0: null)
  localPort,  \* server.config.localHost/localPort (0: unset, else a tunnel's address)
  db,         \* the Database objects: database, connecting, connection
  call,       \* the connect() invocations and where each one is suspended
  adapter,    \* the adapters constructed by the connect() invocations
  tunnel,     \* the net.Server forwarding listeners made by connectTunnel
  lastOp      \* the call or tunnel event of the step just taken: what it was, the
              \* Database or connection it was on, what it returned or threw

svars == <<ssh, databases, sshTunnel, localPort, db, call, adapter, tunnel, lastOp>>

\* one query handle, adapter.query(queryText), and the driver underneath it
VARIABLES
  engine,     \* the adapter class the handle belongs to
  poolUp,     \* sqlserver: this.conn.connection is set
  pid,        \* pid / queryConnection / queryRequest of the handle (0: null)
  canceling,  \* the handle's canceling flag (postgresql, mysql)
  canceled,   \* createCancelablePromise: canceled
  discarded,  \* createCancelablePromise: discarded
  exec,       \* the execute() invocations on the handle
  kill,       \* the kill queries issued by cancel() (postgresql, mysql)
  cancelCalled, \* cancel() has been invoked on the handle
  lastCancel  \* what the cancel() made in the step just taken did

qvars == <<engine, poolUp, pid, canceling, canceled, discarded, exec, kill, cancelCalled, lastCancel>>

\* a cancelable token used on its own (utils.ts createCancelablePromise); its
\* canceled and discarded flags are the ones above
VARIABLES
  waits,      \* the wait() calls made on the token
  trigger     \* which of cancel() and discard() was called first on the token

tvars == <<waits, trigger>>

\* the module variable of database.ts and the select-top queries built from it
VARIABLES
  selectLimit, \* let selectLimit: number | null
  settings,    \* the setSelectLimit / clearSelectLimit calls made so far, in order
  selectTop    \* the getQuerySelectTop call of the step just taken and the limit it used

lvars == <<selectLimit, settings, selectTop>>

\* the adapter registry (adapters/index.ts) and the library functions that are
\* called with arguments and return or throw without a session
VARIABLES
  ADAPTERS,   \* the keys of the registered adapters
  ret         \* the function call of the step just taken: fn, its arguments, out

fvars == <<ADAPTERS, ret>>

\* the connections of the tunnels (tunnel.ts)
VARIABLES
  inbound,    \* the sockets accepted by a tunnel's listener, each with its SSH client
  closeEvent  \* the tunnels whose net.Server has emitted 'close'

nvars == <<inbound, closeEvent>>

NoDb == [created |-> FALSE, database |-> "", connecting |-> FALSE, connection |-> 0]
NoCall == [pc |-> "free", db |-> 0, tunnelRes |-> "none", sshRes |-> "none", listenOn |-> 0,
           seen |-> "none", err |-> "none"]
NoAdapter == [connect |-> "none", port |-> 0, fwd |-> FALSE, disconnects |-> 0,
              closed |-> "none"]
NoTunnel == [state |-> "none"]
NoOp == [op |-> "none", h |-> 0, res |-> "none"]

\* class Database field initialisers, class Server field initialisers
SessionInit ==
  /\ ssh \in BOOLEAN
  /\ databases = [k \in DbKeys |-> 0]
  /\ sshTunnel = 0
  /\ localPort = 0
  /\ db = [h \in Handles |-> NoDb]
  /\ call = [c \in Calls |-> NoCall]
  /\ adapter = [c \in Calls |-> NoAdapter]
  /\ tunnel = [c \in Calls |-> NoTunnel]
  /\ lastOp = NoOp

\* connect() invocations that have started their work and not yet settled
InFlight(h) == {c \in Calls : call[c].db = h /\ call[c].pc \in {"awaitTunnel", "awaitAll"}}

FreeCalls == {c \in Calls : call[c].pc = "free"}
NextCall == CHOOSE c \in FreeCalls : \A c2 \in FreeCalls : c <= c2

FreeHandles == {h \in Handles : ~db[h].created}
NextHandle == CHOOSE h \in FreeHandles : \A h2 \in FreeHandles : h <= h2

\* ------------------------------------------------------- Server (server.ts)

removeDatabase_keyKept(dbs, name) == dbs

\* Server.removeDatabase: deletes whatever is stored under the key
removeDatabase(dbs, name) ==
  IF dbs[DbKey(name)] # 0 THEN [dbs EXCEPT ![DbKey(name)] = 0] ELSE dbs

\* Server.createConnection(dbName): the registered Database, or a new one
createConnection(name) ==
  /\ IF databases[DbKey(name)] # 0
       THEN UNCHANGED <<databases, db>>
       ELSE /\ FreeHandles # {}
            /\ databases' = [databases EXCEPT ![DbKey(name)] = NextHandle]
            /\ db' = [db EXCEPT ![NextHandle] = [NoDb EXCEPT !.created = TRUE, !.database = name]]
  /\ lastOp' = NoOp
  /\ UNCHANGED <<ssh, sshTunnel, localPort, call, adapter, tunnel>>
  /\ UNCHANGED <<qvars, tvars, lvars, fvars, nvars>>

\* ---------------------------------------------------- Database (database.ts)

\* the adapter side of Database.disconnect: void this.connection.disconnect()
disconnectAdapter(ad, h) ==
  IF db[h].connection # 0
    THEN [ad EXCEPT ![db[h].connection].disconnects = @ + 1]
    ELSE ad

disconnectDb_connectingLeft(h) == [db EXCEPT ![h].connection = 0]

disconnectDb_connectionKept(h) == [db EXCEPT ![h].connecting = FALSE]

\* the Database side of Database.disconnect: connecting = false; connection = null
disconnectDb(h) == [db EXCEPT ![h].connecting = FALSE, ![h].connection = 0]

handleSSHError_resolvedAtOnce(t) == "ok"

\* handleSSHError(): resolved at once without a tunnel, else it waits for the
\* tunnel's next 'success' or 'error' event
handleSSHError(t) == IF t = 0 THEN "ok" ELSE "pending"

\* XxxAdapter.configDatabase: the endpoint the new adapter will connect to
\* (0: the configured host/port or file, else the tunnel listening at
\* localHost/localPort); sqlite.ts 48-54 opens the database file and does not
\* look at server.sshTunnel
configDatabase(t, p) == IF t # 0 /\ engine # "sqlite" THEN p ELSE 0

\* connect() lines 74-76 run by invocation c on h: adapterFactory(...), then
\* Promise.all([adapter.connect(), this.handleSSHError()]) is awaited.
\* ad: the adapters, t / p: server.sshTunnel and the adapter's endpoint at that moment
startAdapter(ad, c, h, t, p) ==
  /\ adapter' = [ad EXCEPT ![c] = [NoAdapter EXCEPT !.connect = "pending", !.port = p]]
  /\ call' = [call EXCEPT ![c] = [NoCall EXCEPT !.pc = "awaitAll", !.db = h,
                                     !.tunnelRes = call[c].tunnelRes,
                                     !.sshRes = handleSSHError(t),
                                     !.listenOn = t]]

\* every connect() asks for a tunnel: the existing one is not looked at
needsTunnel_everyConnect == ssh

\* connect() line 63: a tunnel is requested only when none is referenced yet
needsTunnel == ssh /\ sshTunnel = 0

\* Database.connect(), from the call to its first suspension
connect(h) ==
  /\ db[h].created
  /\ IF db[h].connecting
       THEN \* line 48: thrown before the try, so neither catch nor finally runs
            /\ lastOp' = [op |-> "connect", h |-> h, res |-> "ConnectInProgressError"]
            /\ UNCHANGED <<ssh, databases, sshTunnel, localPort, db, call, adapter, tunnel>>
       ELSE /\ FreeCalls # {}
            /\ lastOp' = [op |-> "connect", h |-> h, res |-> "accepted"]
            /\ db' = [db EXCEPT ![h].connecting = TRUE]
            /\ IF needsTunnel
                 THEN \* suspended at: await connectTunnel(this.server.config)
                      /\ call' = [call EXCEPT ![NextCall] =
                                    [NoCall EXCEPT !.pc = "awaitTunnel", !.db = h,
                                                   !.tunnelRes = "pending"]]
                      /\ adapter' = disconnectAdapter(adapter, h)
                 ELSE startAdapter(disconnectAdapter(adapter, h), NextCall, h,
                                   sshTunnel, configDatabase(sshTunnel, localPort))
            /\ UNCHANGED <<ssh, databases, sshTunnel, localPort, tunnel>>
  /\ UNCHANGED <<qvars, tvars, lvars, fvars, nvars>>

\* a connect() invocation that has returned: its promises are no longer awaited
settled(c, how) == [NoCall EXCEPT !.pc = how, !.db = call[c].db, !.err = call[c].err]

connectFailed_withoutDisconnect(c) ==
  /\ call' = [call EXCEPT ![c] = settled(c, "rejected")]
  /\ db' = [db EXCEPT ![call[c].db].connecting = FALSE]
  /\ UNCHANGED <<adapter, databases>>

\* connect()'s catch and finally: this.disconnect(); throw err; connecting = false
connectFailed(c) ==
  LET h == call[c].db IN
  /\ call' = [call EXCEPT ![c] = settled(c, "rejected")]
  /\ db' = disconnectDb(h)
  /\ adapter' = disconnectAdapter(adapter, h)
  /\ databases' = removeDatabase(databases, db[h].database)

\* connectTunnel (tunnel.ts): server.listen succeeded, the promise resolves with the server
tunnelListening(c) ==
  /\ call[c].pc = "awaitTunnel" /\ call[c].tunnelRes = "pending"
  /\ tunnel' = [tunnel EXCEPT ![c] = [NoTunnel EXCEPT !.state = "listening"]]
  /\ call' = [call EXCEPT ![c].tunnelRes = "ok"]
  /\ UNCHANGED <<ssh, databases, sshTunnel, localPort, db, adapter>>
  /\ lastOp' = NoOp
  /\ UNCHANGED <<qvars, tvars, lvars, fvars, nvars>>

\* connectTunnel rejects: configTunnel threw (no host/port, unreadable key) or listen failed
tunnelRejected(c) ==
  /\ call[c].pc = "awaitTunnel" /\ call[c].tunnelRes = "pending"
  /\ call' = [call EXCEPT ![c].tunnelRes = "fail", ![c].err = "tunnel"]
  /\ UNCHANGED <<ssh, databases, sshTunnel, localPort, db, adapter, tunnel>>
  /\ lastOp' = NoOp
  /\ UNCHANGED <<qvars, tvars, lvars, fvars, nvars>>

\* connect() resumes after await connectTunnel (lines 65-76, or the catch)
connectAfterTunnel(c) ==
  /\ call[c].pc = "awaitTunnel" /\ call[c].tunnelRes # "pending"
  /\ IF call[c].tunnelRes = "ok"
       THEN /\ sshTunnel' = c
            /\ localPort' = c
            /\ startAdapter(adapter, c, call[c].db, c, configDatabase(c, c))
            /\ UNCHANGED <<db, databases>>
       ELSE /\ connectFailed(c)
            /\ UNCHANGED <<sshTunnel, localPort>>
  /\ UNCHANGED <<ssh, tunnel>>
  /\ lastOp' = NoOp
  /\ UNCHANGED <<qvars, tvars, lvars, fvars, nvars>>

\* connect() resumes after await Promise.all: line 78 and finally, or catch and finally
connectSettled(c) ==
  /\ call[c].pc = "awaitAll"
  /\ \/ /\ call[c].err # "none"
        /\ connectFailed(c)
     \/ /\ call[c].err = "none"
        /\ adapter[c].connect = "ok" /\ call[c].sshRes = "ok"
        /\ call' = [call EXCEPT ![c] = settled(c, "resolved")]
        /\ db' = [db EXCEPT ![call[c].db].connection = c, ![call[c].db].connecting = FALSE]
        /\ UNCHANGED <<adapter, databases>>
  /\ UNCHANGED <<ssh, sshTunnel, localPort, tunnel>>
  /\ lastOp' = NoOp
  /\ UNCHANGED <<qvars, tvars, lvars, fvars, nvars>>

\* Database.disconnect()
disconnect(h) ==
  /\ db[h].created
  /\ db' = disconnectDb(h)
  /\ adapter' = disconnectAdapter(adapter, h)
  /\ databases' = removeDatabase(databases, db[h].database)
  /\ lastOp' = [op |-> "disconnect", h |-> h, res |-> "returned"]
  /\ UNCHANGED <<ssh, sshTunnel, localPort, call, tunnel>>
  /\ UNCHANGED <<qvars, tvars, lvars, fvars, nvars>>

\* net.Server.close(): a listening server stops listening; closing a closed one is a no-op
closeTunnel(tn, t) ==
  IF tn[t].state = "listening" THEN [tn EXCEPT ![t].state = "closed"] ELSE tn

\* Server.end(): disconnect() of every registered Database, then close the tunnel
end ==
  LET regd == {databases[k] : k \in DbKeys} \ {0} IN
  /\ db' = [h \in Handles |-> IF h \in regd THEN disconnectDb(h)[h] ELSE db[h]]
  /\ adapter' = [a \in Calls |->
                   IF \E h \in regd : db[h].connection = a
                     THEN [adapter[a] EXCEPT !.disconnects = @ + 1]
                     ELSE adapter[a]]
  /\ databases' = [k \in DbKeys |->
                     IF \E h \in regd : DbKey(db[h].database) = k THEN 0 ELSE databases[k]]
  /\ IF sshTunnel # 0
       THEN /\ tunnel' = closeTunnel(tunnel, sshTunnel)
            /\ sshTunnel' = 0
       ELSE UNCHANGED <<tunnel, sshTunnel>>
  /\ lastOp' = [op |-> "end", h |-> 0, res |-> "returned"]
  /\ UNCHANGED <<ssh, localPort, call>>
  /\ UNCHANGED <<qvars, tvars, lvars, fvars, nvars>>

\* ------------------------------------------------- tunnel events (tunnel.ts)

\* adapters that open connections to the tunnel's listening address: constructed
\* with the local endpoint, connecting or connected, and not told to disconnect
usesTunnel(a) ==
  /\ adapter[a].port # 0
  /\ adapter[a].connect \in {"pending", "ok"}
  /\ adapter[a].disconnects = 0
  /\ tunnel[adapter[a].port].state = "listening"

\* server.emit(ev) on tunnel t: every handleSSHError promise still pending on t settles;
\* seen is the event that reached the listeners of the invocation first
emit(cl, t, res) ==
  [c \in Calls |->
     IF cl[c].pc = "awaitAll" /\ cl[c].listenOn = t /\ cl[c].sshRes = "pending"
       THEN [cl[c] EXCEPT !.sshRes = res, !.seen = res,
                          !.err = IF res = "fail" /\ @ = "none" THEN "ssh" ELSE @]
       ELSE cl[c]]

\* tunnel.ts 46-54, no err: the forward for a connection of adapter a is up
forwardSuccess(a) ==
  /\ usesTunnel(a)
  /\ call' = emit(call, adapter[a].port, "ok")
  /\ adapter' = [adapter EXCEPT ![a].fwd = TRUE]
  /\ UNCHANGED <<ssh, databases, sshTunnel, localPort, db, tunnel>>
  /\ lastOp' = [op |-> "forwardSuccess", h |-> a, res |-> "none"]
  /\ UNCHANGED <<qvars, tvars, lvars, fvars, nvars>>

\* tunnel.ts 47-51: forwardOut failed: server.close(); server.emit('error', err)
forwardError(a) ==
  /\ usesTunnel(a)
  /\ tunnel' = closeTunnel(tunnel, adapter[a].port)
  /\ call' = emit(call, adapter[a].port, "fail")
  /\ UNCHANGED <<ssh, databases, sshTunnel, localPort, db, adapter>>
  /\ lastOp' = [op |-> "forwardError", h |-> a, res |-> "none"]
  /\ UNCHANGED <<qvars, tvars, lvars, fvars, nvars>>

\* tunnel.ts 28, 34, 62: the inbound socket or the SSH client fails (e.g. SSH
\* authentication): server.emit('error', err), the listener stays open
clientError(a) ==
  /\ usesTunnel(a)
  /\ call' = emit(call, adapter[a].port, "fail")
  /\ UNCHANGED <<ssh, databases, sshTunnel, localPort, db, adapter, tunnel>>
  /\ lastOp' = [op |-> "clientError", h |-> a, res |-> "none"]
  /\ UNCHANGED <<qvars, tvars, lvars, fvars, nvars>>

\* ------------------------------------------- adapter.connect() (the driver)

\* adapter.connect() resolves: directly, or over a forward that is up
adapterConnected(a) ==
  /\ adapter[a].connect = "pending"
  /\ adapter[a].port = 0 \/ adapter[a].fwd
  /\ adapter' = [adapter EXCEPT ![a].connect = "ok"]
  /\ UNCHANGED <<ssh, databases, sshTunnel, localPort, db, call, tunnel>>
  /\ lastOp' = NoOp
  /\ UNCHANGED <<qvars, tvars, lvars, fvars, nvars>>

\* adapter.connect() rejects; Promise.all rejects with the first rejection
adapterConnectFailed(a) ==
  /\ adapter[a].connect = "pending"
  /\ adapter' = [adapter EXCEPT ![a].connect = "fail"]
  /\ call' = [call EXCEPT ![a].err = IF call[a].pc = "awaitAll" /\ @ = "none"
                                       THEN "adapter" ELSE @]
  /\ UNCHANGED <<ssh, databases, sshTunnel, localPort, db, tunnel>>
  /\ lastOp' = NoOp
  /\ UNCHANGED <<qvars, tvars, lvars, fvars, nvars>>

\* the promise of adapter.disconnect() (pool.end(), connection.close()) settles;
\* Database.disconnect() called it with void and looks at neither outcome
adapterDisconnected(a) ==
  /\ adapter[a].disconnects > 0 /\ adapter[a].closed = "none"
  /\ adapter' = [adapter EXCEPT ![a].closed = "ok"]
  /\ UNCHANGED <<ssh, databases, sshTunnel, localPort, db, call, tunnel>>
  /\ lastOp' = NoOp
  /\ UNCHANGED <<qvars, tvars, lvars, fvars, nvars>>

adapterDisconnectFailed(a) ==
  /\ adapter[a].disconnects > 0 /\ adapter[a].closed = "none"
  /\ adapter' = [adapter EXCEPT ![a].closed = "fail"]
  /\ UNCHANGED <<ssh, databases, sshTunnel, localPort, db, call, tunnel>>
  /\ lastOp' = NoOp
  /\ UNCHANGED <<qvars, tvars, lvars, fvars, nvars>>

\* ------------------------------------ delegating operations (database.ts 99-274)

\* the operations of Database that hand the call to this.connection
DelegatingOps ==
  {"getVersion", "listDatabases", "listSchemas", "listTables", "listViews",
   "listRoutines", "listTableColumns", "listTableTriggers", "listTableIndexes",
   "getTableReferences", "getTableKeys", "query", "executeQuery", "getQuerySelectTop",
   "getTableCreateScript", "getTableSelectScript", "getTableInsertScript",
   "getTableUpdateScript", "getTableDeleteScript", "getViewCreateScript",
   "getRoutineCreateScript", "truncateAllTables"}

\* the operations whose first statement is this.checkIsConnected(), directly or
\* (select/insert/update script) through getTableColumnNames
callsCheckIsConnected(op) == op \notin {"truncateAllTables", "getTableDeleteScript"}

\* Database.checkIsConnected: throws when connecting or without a connection
checkIsConnected(h) == ~(db[h].connecting \/ db[h].connection = 0)

\* one delegating operation called on Database h: what it throws, or that the
\* adapter's method was called (a method call on null is a TypeError)
callOp(h, op) ==
  /\ db[h].created
  /\ lastOp' = [op |-> op, h |-> h,
                res |-> IF callsCheckIsConnected(op) /\ ~checkIsConnected(h)
                          THEN "NoConnectionError"
                          ELSE IF db[h].connection = 0 THEN "TypeError" ELSE "delegated"]
  /\ UNCHANGED <<ssh, databases, sshTunnel, localPort, db, call, adapter, tunnel>>
  /\ UNCHANGED <<qvars, tvars, lvars, fvars, nvars>>

\* ------------------------------------- query handles (adapters/*.ts query())

MaxExec == 2    \* execute() invocations on the handle
MaxKill == 2    \* kill queries issued by cancel() on the handle

Execs == 1..MaxExec
Kills == 1..MaxKill

\* the adapters that implement query(): redshift runs the postgresql adapter,
\* mariadb the mysql adapter
Engines == {"postgresql", "mysql", "sqlite", "sqlserver"}

\* postgresql.ts 609-612, mysql.ts 161-164: the handle holds a pid, a canceling
\* flag and a CancelableWait; sqlite and sqlserver hold only the connection / request
hasCancelable(e) == e \in {"postgresql", "mysql"}

\* error codes a driver error can carry: the engine's cancel code (57014,
\* PROTOCOL_CONNECTION_LOST, SQLITE_INTERRUPT, ECANCEL) or any other
ErrorCodes == {"cancel", "other"}

\* other: the statement that another operation runs on the backend connection
\* of the invocation after it went back to the pool (none / running / killed)
NoExec == [pc |-> "none", stmt |-> "none", killed |-> FALSE, out |-> "none", other |-> "none"]
NoKill == [pc |-> "none", target |-> 0]

QueryIdle ==
  /\ cancelCalled = FALSE
  /\ pid = 0
  /\ canceling = FALSE
  /\ canceled = FALSE
  /\ discarded = FALSE
  /\ exec = [k \in Execs |-> NoExec]
  /\ kill = [j \in Kills |-> NoKill]
  /\ lastCancel = "none"

FreeExecs == {k \in Execs : exec[k].pc = "none"}
NextExec == CHOOSE k \in FreeExecs : \A k2 \in FreeExecs : k <= k2

FreeKills == {j \in Kills : kill[j].pc = "none"}
NextKill == CHOOSE j \in FreeKills : \A j2 \in FreeKills : j <= j2

issue_identifierNotRecorded(k) ==
  /\ UNCHANGED pid
  /\ exec' = [exec EXCEPT ![k].pc = "race", ![k].stmt = "running"]

\* the statement is handed to the driver on the connection of invocation k and the
\* handle records the execution identifier (pid = ...; queryConnection = connection;
\* queryRequest = request)
issue(k) ==
  /\ pid' = k
  /\ exec' = [exec EXCEPT ![k].pc = "race", ![k].stmt = "running"]

\* execute(): runWithConnection(...) is entered
execute ==
  /\ FreeExecs # {}
  /\ IF engine = "sqlserver" /\ poolUp
       THEN \* sqlserver.ts 531-535, 427-433: the pool exists, run() starts at once
            issue(NextExec)
       ELSE /\ exec' = [exec EXCEPT ![NextExec].pc = "acquire"]
            /\ UNCHANGED pid
  /\ lastCancel' = "none"
  /\ UNCHANGED <<engine, cancelCalled, poolUp, canceling, canceled, discarded, kill>>
  /\ UNCHANGED <<svars, tvars, lvars, fvars, nvars>>

\* the connection is there: pool.connect() / getConnection / new sqlite3.Database /
\* ConnectionPool.connect() called back
acquired(k) ==
  /\ exec[k].pc = "acquire"
  /\ IF hasCancelable(engine)
       THEN \* the pid query is sent first (postgresql.ts 617, mysql.ts 169)
            /\ exec' = [exec EXCEPT ![k].pc = "pidQuery"]
            /\ UNCHANGED pid
       ELSE issue(k)
  /\ poolUp' = (poolUp \/ engine = "sqlserver")
  /\ lastCancel' = "none"
  /\ UNCHANGED <<engine, cancelCalled, canceling, canceled, discarded, kill>>
  /\ UNCHANGED <<svars, tvars, lvars, fvars, nvars>>

\* the connection cannot be had, or the pid query fails: execute() rejects with the
\* driver's error, outside the try of the handle
setupFailed(k) ==
  /\ exec[k].pc \in {"acquire", "pidQuery"}
  /\ exec' = [exec EXCEPT ![k].pc = "rejected", ![k].out = "error"]
  /\ lastCancel' = "none"
  /\ UNCHANGED <<engine, cancelCalled, poolUp, pid, canceling, canceled, discarded, kill>>
  /\ UNCHANGED <<svars, tvars, lvars, fvars, nvars>>

\* the race is over with a value: pid = null; return data; finally discard()
raceResolved(k, value) ==
  /\ exec' = [exec EXCEPT ![k].pc = "resolved", ![k].out = value,
                          ![k].stmt = IF value = "data" THEN "done" ELSE @]
  /\ pid' = 0
  /\ discarded' = TRUE
  /\ UNCHANGED <<canceling, canceled>>

\* postgresql.ts 635, mysql.ts 188: the catch of execute() marks the error
marksCanceled(code) == canceling /\ code = "cancel"

\* the race is over with an error: the catch (re-tag), throw, finally discard().
\* byWait: the error is the CanceledByUserError of cancelable.wait(), which is
\* constructed with sqlectronError = code = 'CANCELED_BY_USER'
raceRejected(k, code, byWait) ==
  /\ exec' = [exec EXCEPT ![k].pc = "rejected",
                          ![k].stmt = IF byWait THEN @ ELSE "failed",
                          ![k].out = IF byWait \/ marksCanceled(code)
                                       THEN "CANCELED_BY_USER" ELSE "error"]
  /\ canceling' = IF ~byWait /\ marksCanceled(code) THEN FALSE ELSE canceling
  /\ discarded' = TRUE
  /\ UNCHANGED <<pid, canceled>>

\* postgresql / mysql: the pid query answered. pid is recorded, cancelable.wait()
\* and executeQuery() are started and raced. wait() checks its flags before its
\* first timer, so a token already canceled or discarded settles the race at once.
pidResult(k) ==
  /\ exec[k].pc = "pidQuery"
  /\ IF canceled
       THEN /\ exec' = [exec EXCEPT ![k].pc = "rejected", ![k].stmt = "running",
                                    ![k].out = "CANCELED_BY_USER"]
            /\ pid' = k
            /\ discarded' = TRUE
       ELSE IF discarded
         THEN /\ exec' = [exec EXCEPT ![k].pc = "resolved", ![k].stmt = "running",
                                      ![k].out = "undefined"]
              /\ pid' = 0
              /\ UNCHANGED discarded
         ELSE /\ issue(k)
              /\ UNCHANGED discarded
  /\ lastCancel' = "none"
  /\ UNCHANGED <<engine, cancelCalled, poolUp, canceling, canceled, kill>>
  /\ UNCHANGED <<svars, tvars, lvars, fvars, nvars>>

\* sqlite.ts 83-95, sqlserver.ts 430-458: no flag, the error code alone decides
settleByCode(k, code) ==
  /\ exec' = [exec EXCEPT ![k].pc = "rejected", ![k].stmt = "failed",
                          ![k].out = IF code = "cancel" THEN "CANCELED_BY_USER" ELSE "error"]
  /\ UNCHANGED <<pid, canceling, canceled, discarded>>

\* the driver completes the statement of invocation k
stmtDone(k) ==
  /\ exec[k].stmt = "running" /\ ~exec[k].killed
  /\ IF exec[k].pc = "race"
       THEN IF hasCancelable(engine)
              THEN raceResolved(k, "data")
              ELSE \* sqlite / sqlserver: the result is returned, the identifier stays
                   /\ exec' = [exec EXCEPT ![k].pc = "resolved", ![k].stmt = "done",
                                           ![k].out = "data"]
                   /\ UNCHANGED <<pid, canceling, canceled, discarded>>
       ELSE \* nobody is waiting for it any more
            /\ exec' = [exec EXCEPT ![k].stmt = "done"]
            /\ UNCHANGED <<pid, canceling, canceled, discarded>>
  /\ lastCancel' = "none"
  /\ UNCHANGED <<engine, cancelCalled, poolUp, kill>>
  /\ UNCHANGED <<svars, tvars, lvars, fvars, nvars>>

\* the driver fails the statement of invocation k with an error carrying code;
\* a statement terminated by the engine fails with the engine's cancel code
stmtFailed(k, code) ==
  /\ exec[k].stmt = "running"
  /\ exec[k].killed => code = "cancel"
  /\ IF exec[k].pc = "race"
       THEN IF hasCancelable(engine)
              THEN raceRejected(k, code, FALSE)
              ELSE settleByCode(k, code)
       ELSE /\ exec' = [exec EXCEPT ![k].stmt = "failed"]
            /\ UNCHANGED <<pid, canceling, canceled, discarded>>
  /\ lastCancel' = "none"
  /\ UNCHANGED <<engine, cancelCalled, poolUp, kill>>
  /\ UNCHANGED <<svars, tvars, lvars, fvars, nvars>>

\* utils.ts 39-48: a timer of cancelable.wait() fires and finds a flag set
waitTick(k) ==
  /\ hasCancelable(engine)
  /\ exec[k].pc = "race"
  /\ canceled \/ discarded
  /\ IF canceled
       THEN raceRejected(k, "CANCELED_BY_USER", TRUE)
       ELSE raceResolved(k, "undefined")
  /\ lastCancel' = "none"
  /\ UNCHANGED <<engine, cancelCalled, poolUp, kill>>
  /\ UNCHANGED <<svars, tvars, lvars, fvars, nvars>>

\* the engine-native termination reaches the connection / request of invocation k:
\* a statement running there is terminated
terminate(ex, k) ==
  IF k # 0 /\ ex[k].stmt = "running" THEN [ex EXCEPT ![k].killed = TRUE]
  ELSE IF k # 0 /\ ex[k].other = "running" THEN [ex EXCEPT ![k].other = "killed"]
  ELSE ex

notReady_flagSetBeforeCheck ==
  /\ lastCancel' = "NotReadyError"
  /\ canceling' = TRUE
  /\ UNCHANGED <<pid, canceled, discarded, exec, kill>>

\* cancel() finds no identifier: throw new Error('Query not ready to be canceled')
notReady ==
  /\ lastCancel' = "NotReadyError"
  /\ UNCHANGED <<pid, canceling, canceled, discarded, exec, kill>>

\* cancel() on the handle
cancel ==
  /\ IF pid = 0
       THEN notReady
       ELSE IF hasCancelable(engine)
         THEN \* canceling = true; the kill query is sent on another connection
              /\ FreeKills # {}
              /\ canceling' = TRUE
              /\ kill' = [kill EXCEPT ![NextKill] = [pc |-> "sent", target |-> pid]]
              /\ lastCancel' = "accepted"
              /\ UNCHANGED <<pid, canceled, discarded, exec>>
         ELSE \* queryConnection.interrupt() / queryRequest.cancel()
              /\ exec' = terminate(exec, pid)
              /\ lastCancel' = "accepted"
              /\ UNCHANGED <<pid, canceling, canceled, discarded, kill>>
  /\ cancelCalled' = TRUE
  /\ UNCHANGED <<engine, poolUp>>
  /\ UNCHANGED <<svars, tvars, lvars, fvars, nvars>>

\* the engine runs pg_cancel_backend(pid) / KILL pid
killLanded(j) ==
  /\ kill[j].pc = "sent"
  /\ kill' = [kill EXCEPT ![j].pc = "landed"]
  /\ exec' = terminate(exec, kill[j].target)
  /\ lastCancel' = "none"
  /\ UNCHANGED <<engine, cancelCalled, poolUp, pid, canceling, canceled, discarded>>
  /\ UNCHANGED <<svars, tvars, lvars, fvars, nvars>>

\* the kill query answers (pg_cancel_backend = true): cancelable.cancel()
killOk(j) ==
  /\ kill[j].pc = "landed"
  /\ kill' = [kill EXCEPT ![j].pc = "ok"]
  /\ canceled' = TRUE
  /\ lastCancel' = "none"
  /\ UNCHANGED <<engine, cancelCalled, poolUp, pid, canceling, discarded, exec>>
  /\ UNCHANGED <<svars, tvars, lvars, fvars, nvars>>

\* the kill query fails (no connection, unknown thread id, pg_cancel_backend =
\* false): catch: canceling = false; throw
killFailed(j) ==
  /\ kill[j].pc = "sent"
  /\ kill' = [kill EXCEPT ![j].pc = "failed"]
  /\ canceling' = FALSE
  /\ lastCancel' = "none"
  /\ UNCHANGED <<engine, cancelCalled, poolUp, pid, canceled, discarded, exec>>
  /\ UNCHANGED <<svars, tvars, lvars, fvars, nvars>>

\* postgresql.ts 716-719, mysql.ts 503-509: runWithConnection's finally has
\* given the connection of invocation k back to the pool
released(k) == exec[k].pc \in {"resolved", "rejected"} /\ exec[k].stmt # "none"

\* the pool hands the released connection of invocation k, idle again, to another
\* operation of the adapter (another handle, a listing), which runs a statement on it
reacquired(k) ==
  /\ hasCancelable(engine)
  /\ released(k) /\ exec[k].stmt # "running"
  /\ exec[k].other = "none"
  /\ exec' = [exec EXCEPT ![k].other = "running"]
  /\ lastCancel' = "none"
  /\ UNCHANGED <<engine, cancelCalled, poolUp, pid, canceling, canceled, discarded, kill>>
  /\ UNCHANGED <<svars, tvars, lvars, fvars, nvars>>

\* the other operation's statement completes and its connection is released
otherDone(k) ==
  /\ exec[k].other = "running"
  /\ exec' = [exec EXCEPT ![k].other = "none"]
  /\ lastCancel' = "none"
  /\ UNCHANGED <<engine, cancelCalled, poolUp, pid, canceling, canceled, discarded, kill>>
  /\ UNCHANGED <<svars, tvars, lvars, fvars, nvars>>

QueryNext ==
  \/ \E k \in Execs : reacquired(k)
  \/ \E k \in Execs : otherDone(k)
  \/ execute
  \/ \E k \in Execs : acquired(k)
  \/ \E k \in Execs : setupFailed(k)
  \/ \E k \in Execs : pidResult(k)
  \/ \E k \in Execs : stmtDone(k)
  \/ \E k \in Execs, code \in ErrorCodes : stmtFailed(k, code)
  \/ \E k \in Execs : waitTick(k)
  \/ cancel
  \/ \E j \in Kills : killLanded(j)
  \/ \E j \in Kills : killOk(j)
  \/ \E j \in Kills : killFailed(j)

\* ------------------------------ CancelableWait (utils.ts createCancelablePromise)

MaxWait == 3    \* wait() calls on the token

Waits == 1..MaxWait

NoWait == [pc |-> "none", err |-> "none"]

TokenIdle ==
  /\ waits = [w \in Waits |-> NoWait]
  /\ trigger = "none"

\* tunnel.ts 112-122: the error wait() throws, with code = sqlectronError = CANCELED_BY_USER
CanceledByUserError == "CANCELED_BY_USER"

\* utils.ts 40-47: one look of wait() at the flags c (canceled) and d (discarded):
\* keep polling, throw, or return
look(c, d) ==
  IF ~c /\ ~d THEN [pc |-> "polling", err |-> "none"]
  ELSE IF c THEN [pc |-> "rejected", err |-> CanceledByUserError]
  ELSE [pc |-> "resolved", err |-> "none"]

\* wait() is called: the async function runs up to its first await
tokenWait(w) ==
  /\ waits[w].pc = "none"
  /\ waits' = [waits EXCEPT ![w] = look(canceled, discarded)]
  /\ UNCHANGED <<trigger, canceled, discarded>>
  /\ UNCHANGED <<engine, poolUp, pid, canceling, exec, kill, cancelCalled, lastCancel>>
  /\ UNCHANGED <<svars, lvars, fvars, nvars>>

\* the timer of timeIdle ms of a polling wait() fires
tokenTick(w) ==
  /\ waits[w].pc = "polling"
  /\ waits' = [waits EXCEPT ![w] = look(canceled, discarded)]
  /\ UNCHANGED <<trigger, canceled, discarded>>
  /\ UNCHANGED <<engine, poolUp, pid, canceling, exec, kill, cancelCalled, lastCancel>>
  /\ UNCHANGED <<svars, lvars, fvars, nvars>>

\* cancel(): canceled = true
tokenCancel ==
  /\ canceled' = TRUE
  /\ trigger' = IF trigger = "none" THEN "cancel" ELSE trigger
  /\ UNCHANGED <<waits, discarded>>
  /\ UNCHANGED <<engine, poolUp, pid, canceling, exec, kill, cancelCalled, lastCancel>>
  /\ UNCHANGED <<svars, lvars, fvars, nvars>>

\* discard(): discarded = true
tokenDiscard ==
  /\ discarded' = TRUE
  /\ trigger' = IF trigger = "none" THEN "discard" ELSE trigger
  /\ UNCHANGED <<waits, canceled>>
  /\ UNCHANGED <<engine, poolUp, pid, canceling, exec, kill, cancelCalled, lastCancel>>
  /\ UNCHANGED <<svars, lvars, fvars, nvars>>

TokenNext ==
  \/ \E w \in Waits : tokenWait(w)
  \/ \E w \in Waits : tokenTick(w)
  \/ tokenCancel
  \/ tokenDiscard

\* ------------------------------------- the select limit (database.ts 12-13, 195-204, 277-283)

MaxSettings == 3    \* setSelectLimit / clearSelectLimit calls that are logged

DEFAULT_LIMIT == 1000

\* limits a caller passes
Limits == {0, 125, 222}

\* an optional number: {} for null / undefined, {n} for n
OptLimits == {{}} \cup {{n} : n \in Limits}

NoTop == [h |-> 0, given |-> {}, limit |-> {}]

LimitIdle ==
  /\ selectLimit = {}
  /\ settings = << >>
  /\ selectTop = NoTop

\* setSelectLimit(limit): selectLimit = limit
setSelectLimit(n) ==
  /\ Len(settings) < MaxSettings
  /\ selectLimit' = {n}
  /\ settings' = Append(settings, [op |-> "set", limit |-> {n}])
  /\ selectTop' = NoTop
  /\ UNCHANGED <<svars, qvars, tvars, fvars, nvars>>

\* clearSelectLimit(): selectLimit = null
clearSelectLimit ==
  /\ Len(settings) < MaxSettings
  /\ selectLimit' = {}
  /\ settings' = Append(settings, [op |-> "clear", limit |-> {}])
  /\ selectTop' = NoTop
  /\ UNCHANGED <<svars, qvars, tvars, fvars, nvars>>

limitValue_truthyTest(limit) ==
  IF limit \in {{}, {0}}
    THEN (IF selectLimit \notin {{}, {0}} THEN selectLimit ELSE {DEFAULT_LIMIT})
    ELSE limit

\* getQuerySelectTop lines 197-200: the limit handed to the adapter
limitValue(limit) ==
  IF limit = {}
    THEN (IF selectLimit # {} THEN selectLimit ELSE {DEFAULT_LIMIT})
    ELSE limit

\* Database.getQuerySelectTop(table, schema, limit) on h
getQuerySelectTop(h, limit) ==
  /\ db[h].created
  /\ IF checkIsConnected(h)
       THEN /\ selectTop' = [h |-> h, given |-> limit, limit |-> limitValue(limit)]
            /\ lastOp' = [op |-> "getQuerySelectTop", h |-> h, res |-> "delegated"]
       ELSE /\ selectTop' = NoTop
            /\ lastOp' = [op |-> "getQuerySelectTop", h |-> h, res |-> "NoConnectionError"]
  /\ UNCHANGED <<ssh, databases, sshTunnel, localPort, db, call, adapter, tunnel>>
  /\ UNCHANGED <<selectLimit, settings>>
  /\ UNCHANGED <<qvars, tvars, fvars, nvars>>

\* the sessions of a server without SSH and the process-wide select limit
LimitNext ==
  \/ \E n \in DbNames : createConnection(n)
  \/ \E h \in Handles : connect(h)
  \/ \E c \in Calls : connectSettled(c)
  \/ \E a \in Calls : adapterConnected(a)
  \/ \E n \in Limits : setSelectLimit(n)
  \/ clearSelectLimit
  \/ \E h \in Handles, limit \in OptLimits : getQuerySelectTop(h, limit)

\* ------------------------------------- createServer (server.ts), registerAdapter

\* adapters/index.ts 22-98: the adapters registered when the module is loaded
BuiltinAdapters ==
  {"mysql", "mariadb", "postgresql", "redshift", "sqlserver", "sqlite", "cassandra"}

\* keys a caller passes as adapter or client, or registers
KeyInputs == {"", "mysql", "cassandra", "custom", "oracle"}

\* an optional string: {} for undefined, {s} for s
OptKeys == {{}} \cup {{k} : k \in KeyInputs}

\* the configurations passed to createServer; given = FALSE is a missing config
Configs ==
  {[given |-> FALSE, adapter |-> {}, client |-> {}]}
    \cup [given : {TRUE}, adapter : OptKeys, client : OptKeys]

NoRet == [fn |-> "none"]

FunctionIdle ==
  /\ ADAPTERS = BuiltinAdapters
  /\ ret = NoRet

\* JavaScript truthiness of an optional string
truthy(o) == o # {} /\ o # {""}

adapterKey_clientIgnored(config) == config.adapter

\* createServer lines 93-95: the adapter key the configuration ends up with
adapterKey(config) ==
  IF ~truthy(config.adapter) /\ truthy(config.client) THEN config.client ELSE config.adapter

\* createServer(serverConfig): a Server, or the error thrown
createServerResult(config) ==
  IF ~config.given THEN "Missing server configuration"
  ELSE IF \E a \in ADAPTERS : {a} = adapterKey(config) THEN "Server"
  ELSE "Invalid SQL adapter"

createServer(config) ==
  /\ ret' = [fn |-> "createServer", config |-> config, out |-> createServerResult(config)]
  /\ UNCHANGED ADAPTERS
  /\ UNCHANGED <<svars, qvars, tvars, lvars, nvars>>

\* registerAdapter(adapter): throws when the key is taken, else ADAPTERS.push(adapter)
registerAdapter(key) ==
  /\ IF key \in ADAPTERS
       THEN /\ ret' = [fn |-> "registerAdapter", key |-> key,
                       out |-> "Adapter already registered with that key"]
            /\ UNCHANGED ADAPTERS
       ELSE /\ ret' = [fn |-> "registerAdapter", key |-> key, out |-> "registered"]
            /\ ADAPTERS' = ADAPTERS \cup {key}
  /\ UNCHANGED <<svars, qvars, tvars, lvars, nvars>>

\* ------------------------------------- XxxAdapter.query(queryText) as a call

\* the adapter classes
AdapterClasses == Engines \cup {"cassandra"}

QueryTexts == {"", "SELECT 1", "SELECT 1; INSERT INTO t VALUES (1)"}

adapterQueryResult_handleForAll(class) == "QueryReturn"

\* what query(queryText) does on an adapter of the class: the four SQL adapters
\* return a handle {execute, cancel} without executing anything
\* (postgresql.ts 609-669, mysql.ts 161-217, sqlite.ts 77-107, sqlserver.ts 421-470),
\* CassandraAdapter.query() throws
adapterQueryResult(class) ==
  IF class = "cassandra"
    THEN "\"query\" function is not implementd by cassandra client."
    ELSE "QueryReturn"

\* adapter.query(text) on an adapter that is connected or not
adapterQuery(class, text, connected) ==
  /\ ret' = [fn |-> "query", class |-> class, text |-> text, connected |-> connected,
             out |-> adapterQueryResult(class), executed |-> FALSE]
  /\ UNCHANGED ADAPTERS
  /\ UNCHANGED <<svars, qvars, tvars, lvars, nvars>>

\* ------------------------------------- XxxAdapter.executeQuery(queryText)

MaxBatch == 2   \* statements in one query text
MaxRows == 2    \* rows a statement returns or changes

StatementKinds == {"SELECT", "INSERT", "UPDATE", "DELETE"}

\* a statement of the batch as the engine runs it: its kind and the number of
\* rows it returns (SELECT) or changes (INSERT, UPDATE, DELETE)
Statements == [kind : StatementKinds, n : 0..MaxRows]

Batches == UNION {[1..len -> Statements] : len \in 1..MaxBatch}

\* utils.ts 80-86: identifyCommands(queryText).map((item) => item.type)
identifyCommands(batch) == [i \in DOMAIN batch |-> batch[i].kind]

returnsRows(st) == st.kind = "SELECT"

\* the positions of the statements of the batch that return a recordset, in order
recordsets(batch) ==
  LET hasRows(i) == returnsRows(batch[i])
  IN  SelectSeq([i \in DOMAIN batch |-> i], hasRows)

RECURSIVE sumRows(_, _)
sumRows(batch, i) == IF i = 0 THEN 0 ELSE batch[i].n + sumRows(batch, i - 1)

\* result.rowsAffected.reduce((a, b) => a + b, 0): the driver counts a row for
\* every row a statement returns or changes
rowsAffected(batch) == sumRows(batch, Len(batch))

\* postgresql.ts 671-679, 734-744: one pg.QueryResult per statement
pgExecuteQuery(batch) ==
  LET commands == identifyCommands(batch) IN
  [i \in DOMAIN batch |->
     [from |-> i, command |-> commands[i],
      rowCount |-> IF returnsRows(batch[i]) THEN {batch[i].n} ELSE {},
      affectedRows |-> IF returnsRows(batch[i]) THEN {} ELSE {batch[i].n}]]

\* mysql.ts 219-244, 541-567: rows or a ResultSetHeader per statement
mysqlExecuteQuery(batch) ==
  LET commands == identifyCommands(batch) IN
  [i \in DOMAIN batch |->
     [from |-> i, command |-> commands[i],
      rowCount |-> IF returnsRows(batch[i]) THEN {batch[i].n} ELSE {},
      affectedRows |-> IF returnsRows(batch[i]) THEN {} ELSE {batch[i].n}]]

\* sqlite.ts 109-115, 240-255, 295-311: every identified statement is run on its
\* own and keeps its statement; affectedRows: changes || 0
sqliteExecuteQuery(batch) ==
  [i \in DOMAIN batch |->
     [from |-> i, command |-> batch[i].kind,
      rowCount |-> IF returnsRows(batch[i]) THEN {batch[i].n} ELSE {},
      affectedRows |-> IF returnsRows(batch[i]) THEN {0} ELSE {batch[i].n}]]

\* sqlserver.ts 473-494, 547-563: the results are the recordsets of the request,
\* or one made-up empty result when there is none and rows were changed; result
\* idx gets commands[idx] and the sum of rowsAffected
sqlserverExecuteQuery(batch) ==
  LET commands == identifyCommands(batch)
      data == recordsets(batch)
      total == rowsAffected(batch)
  IN  IF data = << >>
        THEN IF total # 0
               THEN << [from |-> 0, command |-> commands[1], rowCount |-> {0},
                        affectedRows |-> {total}] >>
               ELSE << >>
        ELSE [idx \in DOMAIN data |->
                [from |-> data[idx], command |-> commands[idx],
                 rowCount |-> {batch[data[idx]].n}, affectedRows |-> {total}]]

executeQueryResult(class, batch) ==
  CASE class = "postgresql" -> pgExecuteQuery(batch)
    [] class = "mysql" -> mysqlExecuteQuery(batch)
    [] class = "sqlite" -> sqliteExecuteQuery(batch)
    [] class = "sqlserver" -> sqlserverExecuteQuery(batch)

\* adapter.executeQuery(queryText) with the batch the text holds
executeQuery(class, batch) ==
  /\ ret' = [fn |-> "executeQuery", class |-> class, batch |-> batch,
             out |-> executeQueryResult(class, batch)]
  /\ UNCHANGED ADAPTERS
  /\ UNCHANGED <<svars, qvars, tvars, lvars, nvars>>

\* ------------------------------------- schema / database filters (filters.ts)

\* names are sequences of characters
NameInputs == { <<"a">>, <<"b">>, <<"a", "b">>, <<"a", "'">> }

\* up to two names in an only / ignore list
NameLists == {l \in SUBSET NameInputs : Cardinality(l) <= 2}

\* the filters a caller passes: none, a bare string, or {only, ignore} where a
\* missing list and an empty one are the empty set
Filters ==
  {[kind |-> "none"]}
    \cup {[kind |-> "string", value |-> v] : v \in NameInputs}
    \cup {[kind |-> "structured", only |-> o, ignore |-> i] : o \in NameLists, i \in NameLists}

\* `'${name}'`: the name between two quotes, nothing escaped
literal(name) == <<"'">> \o name \o <<"'">>

\* filters.ts 15-34 / 36-55: the fragment built for the WHERE clause, as the
\* literals it holds: field = lit, field IN (lits), field NOT IN (lits)
buildSchemaFilter(filter) ==
  CASE filter.kind = "none" -> [eq |-> {}, in |-> {}, notin |-> {}]
    [] filter.kind = "string" -> [eq |-> {literal(filter.value)}, in |-> {}, notin |-> {}]
    [] filter.kind = "structured" ->
         [eq |-> {}, in |-> {literal(n) : n \in filter.only},
          notin |-> {literal(n) : n \in filter.ignore}]

\* the engine reading a string literal from position i of the text t: a quote
\* followed by a quote is one quote of the value, a quote at the end closes the
\* literal, a quote anywhere else closes it early (the rest is a syntax error)
RECURSIVE readFrom(_, _, _)
readFrom(t, i, acc) ==
  IF i > Len(t) THEN [ok |-> FALSE, value |-> acc]
  ELSE IF t[i] # "'" THEN readFrom(t, i + 1, Append(acc, t[i]))
  ELSE IF i = Len(t) THEN [ok |-> TRUE, value |-> acc]
  ELSE IF t[i + 1] = "'" /\ i + 1 < Len(t) THEN readFrom(t, i + 2, Append(acc, "'"))
  ELSE [ok |-> FALSE, value |-> acc]

readLiteral(t) ==
  IF Len(t) >= 2 /\ t[1] = "'" THEN readFrom(t, 2, << >>) ELSE [ok |-> FALSE, value |-> << >>]

\* the engine evaluating the WHERE fragment on a row whose field holds name
evalFragment(frag, name) ==
  LET lits == frag.eq \cup frag.in \cup frag.notin IN
  IF \E l \in lits : ~readLiteral(l).ok THEN "error"
  ELSE IF /\ \A l \in frag.eq : readLiteral(l).value = name
          /\ (frag.in # {} => \E l \in frag.in : readLiteral(l).value = name)
          /\ \A l \in frag.notin : readLiteral(l).value # name
       THEN "pass"
       ELSE "reject"

\* mysql.ts 569-594: filterDatabase(item, filter, field) done in JavaScript
filterDatabase(filter, name) ==
  CASE filter.kind = "none" -> "pass"
    [] filter.kind = "string" -> IF filter.value = name THEN "pass" ELSE "reject"
    [] filter.kind = "structured" ->
         IF filter.only # {} /\ name \notin filter.only THEN "reject"
         ELSE IF filter.ignore # {} /\ name \in filter.ignore THEN "reject"
         ELSE "pass"

\* whether the row of an existing schema / database called name comes back from
\* a listing made with the filter: through the SQL fragment (listSchemas and
\* listDatabases of postgresql and sqlserver) or through filterDatabase (mysql)
applyFilter(how, filter, name) ==
  /\ ret' = [fn |-> "filter", how |-> how, filter |-> filter, name |-> name,
             out |-> IF how = "sql" THEN evalFragment(buildSchemaFilter(filter), name)
                     ELSE filterDatabase(filter, name)]
  /\ UNCHANGED ADAPTERS
  /\ UNCHANGED <<svars, qvars, tvars, lvars, nvars>>

\* ------------------------------------------------ wrapIdentifier (adapters)

MaxIdent == 2

\* the character that quotes identifiers in mysql (mysql.ts 519)
backtick == "backtick"

IdentChars == {"a", "*", "\"", backtick, "[", "]", "1"}

RECURSIVE SeqsUpTo(_, _)
SeqsUpTo(S, n) ==
  IF n = 0 THEN {<< >>}
  ELSE LET shorter == SeqsUpTo(S, n - 1) IN
       shorter \cup {Append(q, c) : q \in {r \in shorter : Len(r) = n - 1}, c \in S}

\* the identifiers handed to wrapIdentifier: every non-empty text of up to
\* MaxIdent characters, and names that hold an array index
IdentInputs ==
  (SeqsUpTo(IdentChars, MaxIdent) \ {<< >>})
    \cup { <<"[", "1", "]">>, <<"a", "[", "1", "]">>, <<"a", "[", "1", "]", "a">>,
           <<"a", "]", "a">>, <<"a", "\"", "a">>, <<"a", backtick, "a">> }

\* value.replace(/ch/g, rep)
RECURSIVE replaceAll(_, _, _)
replaceAll(value, ch, rep) ==
  IF value = << >> THEN << >>
  ELSE (IF Head(value) = ch THEN rep ELSE <<Head(value)>>) \o replaceAll(Tail(value), ch, rep)

\* /(.*?)(\[[0-9]\])/.exec(value): the start of the leftmost [digit], 0 for no match
matched(value) ==
  LET at == {i \in 1..Len(value) :
               /\ i + 2 <= Len(value)
               /\ value[i] = "[" /\ value[i + 1] = "1" /\ value[i + 2] = "]"}
  IN IF at = {} THEN 0 ELSE CHOOSE i \in at : \A j \in at : i <= j

\* postgresql.ts 727-732, sqlite.ts 287-292
RECURSIVE pgWrapIdentifier(_)
pgWrapIdentifier(value) ==
  IF value = <<"*">> THEN value
  ELSE IF matched(value) # 0
    THEN pgWrapIdentifier(SubSeq(value, 1, matched(value) - 1))
           \o SubSeq(value, matched(value), matched(value) + 2)
    ELSE <<"\"">> \o replaceAll(value, "\"", <<"\"", "\"">>) \o <<"\"">>

\* mysql.ts 518-520
mysqlWrapIdentifier(value) ==
  IF value # <<"*">> THEN <<backtick>> \o replaceAll(value, backtick, <<backtick, backtick>>) \o <<backtick>>
  ELSE <<"*">>

\* sqlserver.ts 543-545
sqlserverWrapIdentifier(value) ==
  IF value # <<"*">> THEN <<"[">> \o replaceAll(value, "[", <<"[">>) \o <<"]">>
  ELSE <<"*">>

wrapIdentifier(class, value) ==
  CASE class \in {"postgresql", "sqlite"} -> pgWrapIdentifier(value)
    [] class = "mysql" -> mysqlWrapIdentifier(value)
    [] class = "sqlserver" -> sqlserverWrapIdentifier(value)

openQuote(class) ==
  CASE class \in {"postgresql", "sqlite"} -> "\""
    [] class = "mysql" -> backtick
    [] class = "sqlserver" -> "["

closeQuote(class) == IF class = "sqlserver" THEN "]" ELSE openQuote(class)

\* the engine reading a quoted identifier from position i of the text t: the
\* closing character twice is one such character of the name, once it ends the
\* name; ok when the name ends where the text ends
RECURSIVE readQuoted(_, _, _, _)
readQuoted(t, i, close, acc) ==
  IF i > Len(t) THEN [ok |-> FALSE, value |-> acc]
  ELSE IF t[i] # close THEN readQuoted(t, i + 1, close, Append(acc, t[i]))
  ELSE IF i < Len(t) /\ t[i + 1] = close THEN readQuoted(t, i + 2, close, Append(acc, close))
  ELSE [ok |-> i = Len(t), value |-> acc]

readIdentifier(class, t) ==
  IF Len(t) >= 2 /\ t[1] = openQuote(class) THEN readQuoted(t, 2, closeQuote(class), << >>)
  ELSE [ok |-> FALSE, value |-> << >>]

\* part_002 272-274: Database.wrap(identifier), and the engine reading it back
wrap(class, identifier) ==
  /\ ret' = [fn |-> "wrap", class |-> class, identifier |-> identifier,
             out |-> wrapIdentifier(class, identifier),
             back |-> readIdentifier(class, wrapIdentifier(class, identifier))]
  /\ UNCHANGED ADAPTERS
  /\ UNCHANGED <<svars, qvars, tvars, lvars, nvars>>

\* --------------------------------------- script helpers (Database, part_002)

MaxColumns == 2

ColumnNames == {<<"a">>, <<"a", "]">>}

\* the columnName of each row listTableColumns returns, in its order
ColumnLists == {q \in SeqsUpTo(ColumnNames, MaxColumns) : \A i, j \in 1..Len(q) : q[i] = q[j] => i = j}

TableNames == {<<"a">>, <<"*">>}

\* schema?: string -- not given, the empty string, or a name
OptSchemas == {{}, {<< >>}, {<<"a">>}}

ScriptKinds == {"select", "insert", "update", "delete"}

\* a script is text: pieces written by the helper and names written by wrap
written(t) == [kind |-> "text", v |-> <<t>>]

wrapped(class, name) == [kind |-> "name", v |-> wrapIdentifier(class, name)]

\* list.join(sep)
RECURSIVE join(_, _)
join(list, sep) ==
  IF list = << >> THEN << >>
  ELSE IF Len(list) = 1 THEN list[1]
  ELSE list[1] \o <<sep>> \o join(Tail(list), sep)

resolveSchema_emptyWrapped(class, schema) ==
  IF schema # {} THEN <<wrapped(class, CHOOSE n \in schema : TRUE), written(".")>> ELSE << >>

\* part_002 268-270: schema ? `${this.wrap(schema)}.` : ''
resolveSchema(class, schema) ==
  IF schema # {} /\ schema # {<< >>}
  THEN <<wrapped(class, CHOOSE n \in schema : TRUE), written(".")>>
  ELSE << >>

\* part_002 211-218
getTableSelectScript(class, columnNames, table, schema) ==
  <<written("SELECT ")>>
    \o join([i \in 1..Len(columnNames) |-> <<wrapped(class, columnNames[i])>>], written(", "))
    \o <<written(" FROM ")>> \o resolveSchema(class, schema) \o <<wrapped(class, table), written(";")>>

\* part_002 220-228
getTableInsertScript(class, columnNames, table, schema) ==
  <<written("INSERT INTO ")>> \o resolveSchema(class, schema) \o <<wrapped(class, table), written(" (")>>
    \o join([i \in 1..Len(columnNames) |-> <<wrapped(class, columnNames[i])>>], written(", "))
    \o <<written(")\n VALUES (")>>
    \o join([i \in 1..Len(columnNames) |-> <<written("?")>>], written(", "))
    \o <<written(");")>>

\* part_002 230-239
getTableUpdateScript(class, columnNames, table, schema) ==
  <<written("UPDATE ")>> \o resolveSchema(class, schema) \o <<wrapped(class, table), written("\n SET ")>>
    \o join([i \in 1..Len(columnNames) |-> <<wrapped(class, columnNames[i]), written("=?")>>], written(", "))
    \o <<written("\n WHERE <condition>;")>>

\* part_002 241-246
getTableDeleteScript(class, table, schema) ==
  <<written("DELETE FROM ")>> \o resolveSchema(class, schema)
    \o <<wrapped(class, table), written(" WHERE <condition>;")>>

\* one of the four helpers called on a connected database of the engine class
\* whose table has the columns columnNames
getTableScript(class, kind, columnNames, table, schema) ==
  /\ ret' = [fn |-> "script", class |-> class, kind |-> kind, columnNames |-> columnNames,
             table |-> table, schema |-> schema,
             out |-> CASE kind = "select" -> getTableSelectScript(class, columnNames, table, schema)
                       [] kind = "insert" -> getTableInsertScript(class, columnNames, table, schema)
                       [] kind = "update" -> getTableUpdateScript(class, columnNames, table, schema)
                       [] kind = "delete" -> getTableDeleteScript(class, table, schema)]
  /\ UNCHANGED ADAPTERS
  /\ UNCHANGED <<svars, qvars, tvars, lvars, nvars>>

\* the caller takes the value (or the error) of the call it made
\* ------------------------------------------------ getTableKeys (capability)

\* Database.database of the adapter's session: undefined, or a keyspace / database
Keyspaces == {{}, {<<"a">>}}

\* the adapters whose getTableKeys runs a query of their driver
KeyQueryClasses == {"postgresql", "mysql", "sqlserver"}

\* getTableKeys(table) up to the point where the caller holds the promise:
\*   AbstractAdapter (sqlite inherits it): Promise.resolve([])
\*   CassandraAdapter: new Promise(executor); with no keyspace the executor
\*     returns [] without calling resolve or reject, so nothing is left that
\*     settles the promise; otherwise it calls client.metadata.getTable
\*   postgresql, mysql, sqlserver: await of the driver's query
getTableKeys(class, database, table) ==
  /\ ret' = [fn |-> "getTableKeys", class |-> class, database |-> database, table |-> table,
             pc |-> CASE class = "cassandra" /\ database = {} -> "pending"
                      [] class = "cassandra" -> "getTable"
                      [] class \in KeyQueryClasses -> "query"
                      [] OTHER -> "resolved",
             out |-> << >>]
  /\ UNCHANGED ADAPTERS
  /\ UNCHANGED <<svars, qvars, tvars, lvars, nvars>>

\* the driver answers: the getTable callback with err or tableInfo, or the
\* query's promise; keys are the column names of tableInfo.partitionKeys / the rows
getTableKeysReplied(failed, keys) ==
  /\ ret.fn = "getTableKeys"
  /\ ret.pc \in {"getTable", "query"}
  /\ ret' = [ret EXCEPT !.pc = IF failed THEN "rejected" ELSE "resolved",
                        !.out = IF failed THEN << >> ELSE keys]
  /\ UNCHANGED ADAPTERS
  /\ UNCHANGED <<svars, qvars, tvars, lvars, nvars>>

\* the caller takes the value; a caller awaiting a promise goes on once it settled
returned ==
  /\ ret # NoRet
  /\ ret.fn = "getTableKeys" => ret.pc \in {"resolved", "rejected"}
  /\ ret' = NoRet
  /\ UNCHANGED ADAPTERS
  /\ UNCHANGED <<svars, qvars, tvars, lvars, nvars>>

\* the functions are called one at a time, each when the one before has returned
FunctionNext ==
  \/ \E class \in Engines, kind \in ScriptKinds, columnNames \in ColumnLists,
        table \in TableNames, schema \in OptSchemas :
       ret = NoRet /\ getTableScript(class, kind, columnNames, table, schema)
  \/ \E class \in Engines, identifier \in IdentInputs :
       ret = NoRet /\ wrap(class, identifier)
  \/ \E how \in {"sql", "js"}, filter \in Filters, name \in NameInputs :
       ret = NoRet /\ applyFilter(how, filter, name)
  \/ \E class \in Engines, batch \in Batches : ret = NoRet /\ executeQuery(class, batch)
  \/ \E class \in AdapterClasses, text \in QueryTexts, connected \in BOOLEAN :
       ret = NoRet /\ adapterQuery(class, text, connected)
  \/ \E config \in Configs : ret = NoRet /\ createServer(config)
  \/ \E key \in KeyInputs \ {""} : ret = NoRet /\ registerAdapter(key)
  \/ \E class \in AdapterClasses, database \in Keyspaces, table \in TableNames :
       ret = NoRet /\ getTableKeys(class, database, table)
  \/ \E failed \in BOOLEAN, keys \in ColumnLists : getTableKeysReplied(failed, keys)
  \/ returned

\* --------------------------------- the connections of a tunnel (tunnel.ts)

MaxInbound == 2

MaxTunnelCalls == 1

Inbounds == 1..MaxInbound

\* conn: the inbound socket (none / open / ended); client: its SSH client
\* (none / connecting / ready / ended); on: the tunnel that accepted it;
\* of: the adapter that opened it. connections[] holds the socket from the
\* accept on and the client from 'ready' on.
NoInbound == [conn |-> "none", client |-> "none", on |-> 0, of |-> 0]

TunnelIdle ==
  /\ inbound = [s \in Inbounds |-> NoInbound]
  /\ closeEvent = {}

\* tunnel.ts 27-34, 58-60: the listener accepts a connection of adapter a:
\* connections.push(conn); client = new Client(); client.connect(config)
accept(s, a) ==
  /\ inbound[s].conn = "none"
  /\ usesTunnel(a)
  /\ inbound' = [inbound EXCEPT ![s] = [conn |-> "open", client |-> "connecting",
                                        on |-> adapter[a].port, of |-> a]]
  /\ UNCHANGED closeEvent
  /\ UNCHANGED <<svars, qvars, tvars, lvars, fvars>>

\* tunnel.ts 36-38: client.on('ready'): connections.push(client)
clientReady(s) ==
  /\ inbound[s].client = "connecting"
  /\ inbound' = [inbound EXCEPT ![s].client = "ready"]
  /\ UNCHANGED closeEvent
  /\ UNCHANGED <<svars, qvars, tvars, lvars, fvars>>

\* the adapter's side of the socket ends it (pool.end(), a failed connect, a timeout)
peerEnd(s) ==
  /\ inbound[s].conn = "open"
  /\ inbound' = [inbound EXCEPT ![s].conn = "ended"]
  /\ UNCHANGED closeEvent
  /\ UNCHANGED <<svars, qvars, tvars, lvars, fvars>>

\* the driver ends the sockets of an adapter whose connect() failed or whose
\* disconnect() was called
peerEndByDriver(s) ==
  /\ inbound[s].conn = "open"
  /\ adapter[inbound[s].of].disconnects > 0 \/ adapter[inbound[s].of].connect = "fail"
  /\ peerEnd(s)

\* net.Server emits 'close' once close() was called and no connection is left;
\* tunnel.ts 66-69: connections.forEach((conn) => conn.end())
emitClose(t) ==
  /\ tunnel[t].state = "closed"
  /\ t \notin closeEvent
  /\ \A s \in Inbounds : inbound[s].on = t => inbound[s].conn # "open"
  /\ closeEvent' = closeEvent \cup {t}
  /\ inbound' = [s \in Inbounds |->
                   IF inbound[s].on = t /\ inbound[s].client = "ready"
                     THEN [inbound[s] EXCEPT !.client = "ended"]
                     ELSE inbound[s]]
  /\ UNCHANGED <<svars, qvars, tvars, lvars, fvars>>

\* conn and client, whose 'error' is passed on, exist from the accept on
accepted(a) == \E s \in Inbounds : inbound[s].of = a /\ inbound[s].conn # "none"

\* client.forwardOut is called by the 'ready' handler of a connection's client
forwarding(a) == \E s \in Inbounds : inbound[s].of = a /\ inbound[s].client = "ready"

\* the lifecycle with the tunnel's connections, for MaxTunnelCalls invocations of connect()
TunnelNext ==
  \/ \E n \in DbNames : createConnection(n)
  \/ \E h \in Handles : Cardinality(Calls \ FreeCalls) < MaxTunnelCalls /\ connect(h)
  \/ \E c \in Calls : tunnelListening(c)
  \/ \E c \in Calls : tunnelRejected(c)
  \/ \E c \in Calls : connectAfterTunnel(c)
  \/ \E c \in Calls : connectSettled(c)
  \/ \E h \in Handles : disconnect(h)
  \/ end
  \/ \E a \in Calls : forwarding(a) /\ forwardSuccess(a)
  \/ \E a \in Calls : forwarding(a) /\ forwardError(a)
  \/ \E a \in Calls : accepted(a) /\ clientError(a)
  \/ \E a \in Calls : adapterConnected(a)
  \/ \E a \in Calls : adapterConnectFailed(a)
  \/ \E a \in Calls : adapterDisconnected(a)
  \/ \E a \in Calls : adapterDisconnectFailed(a)
  \/ \E s \in Inbounds, a \in Calls : accept(s, a)
  \/ \E s \in Inbounds : clientReady(s)
  \/ \E s \in Inbounds : peerEnd(s)
  \/ \E t \in Calls : emitClose(t)

SessionNext ==
  \/ \E n \in DbNames : createConnection(n)
  \/ \E h \in Handles : connect(h)
  \/ \E c \in Calls : tunnelListening(c)
  \/ \E c \in Calls : tunnelRejected(c)
  \/ \E c \in Calls : connectAfterTunnel(c)
  \/ \E c \in Calls : connectSettled(c)
  \/ \E h \in Handles : disconnect(h)
  \/ end
  \/ \E a \in Calls : forwardSuccess(a)
  \/ \E a \in Calls : forwardError(a)
  \/ \E a \in Calls : clientError(a)
  \/ \E a \in Calls : adapterConnected(a)
  \/ \E a \in Calls : adapterConnectFailed(a)

\* the facade over a server without SSH: the lifecycle plus the delegating operations
FacadeNext ==
  \/ \E n \in DbNames : createConnection(n)
  \/ \E h \in Handles : connect(h)
  \/ \E c \in Calls : connectSettled(c)
  \/ \E h \in Handles : disconnect(h)
  \/ end
  \/ \E a \in Calls : adapterConnected(a)
  \/ \E a \in Calls : adapterConnectFailed(a)
  \/ \E h \in Handles, op \in DelegatingOps : callOp(h, op)

vars == <<svars, qvars, tvars, lvars, fvars, nvars>>

Init == SessionInit /\ engine = "postgresql" /\ poolUp = FALSE /\ QueryIdle /\ TokenIdle /\ LimitIdle
        /\ FunctionIdle /\ TunnelIdle
Next == SessionNext
Spec == Init /\ [][Next]_vars

\* the lifecycle of a server configured with ssh whose adapter is one that goes
\* through the tunnel (postgresql) or one that does not (sqlite), with what the
\* event loop and the drivers guarantee: a promise that can settle does settle
\* and a continuation that can run does run. Nothing makes a tunnel event happen.
LiveInit ==
  /\ SessionInit /\ ssh
  /\ engine \in {"postgresql", "sqlite"} /\ poolUp = FALSE
  /\ QueryIdle /\ TokenIdle /\ LimitIdle /\ FunctionIdle /\ TunnelIdle

Fairness ==
  \A c \in Calls :
    /\ WF_vars(tunnelListening(c) \/ tunnelRejected(c))
    /\ WF_vars(connectAfterTunnel(c))
    /\ WF_vars(adapterConnected(c) \/ adapterConnectFailed(c))
    /\ WF_vars(connectSettled(c))

LiveSpec == LiveInit /\ [][Next]_vars /\ Fairness

\* the lifecycle with the tunnel's connections: as LiveSpec, and net.Server emits
\* 'close' when it can, and the sockets of a failed or disconnected adapter are ended
TunnelFairness ==
  /\ \A t \in Calls : WF_vars(emitClose(t))
  /\ \A s \in Inbounds : WF_vars(peerEndByDriver(s))

TunnelInit == Init /\ ssh

TunnelSpec == TunnelInit /\ [][TunnelNext]_vars /\ Fairness /\ TunnelFairness

FacadeInit == Init /\ ~ssh
FacadeSpec == FacadeInit /\ [][FacadeNext]_vars

\* the lifecycle on a server without SSH, with a database that is really called
\* "undefined" among the names and with the outcome of the adapters' disconnect()
RegistryNames == DbNames \cup {"undefined"}

RegistryNext ==
  \/ \E n \in RegistryNames : createConnection(n)
  \/ \E h \in Handles : connect(h)
  \/ \E c \in Calls : connectSettled(c)
  \/ \E h \in Handles : disconnect(h)
  \/ end
  \/ \E a \in Calls : adapterConnected(a)
  \/ \E a \in Calls : adapterConnectFailed(a)
  \/ \E a \in Calls : adapterDisconnected(a)
  \/ \E a \in Calls : adapterDisconnectFailed(a)

RegistrySpec == FacadeInit /\ [][RegistryNext]_vars

\* a query handle of any of the four adapters, on a server without SSH;
\* sqlserver's pool may or may not exist yet when the handle is made
QueryInit ==
  /\ SessionInit /\ ~ssh
  /\ engine \in Engines
  /\ poolUp \in (IF engine = "sqlserver" THEN BOOLEAN ELSE {FALSE})
  /\ QueryIdle
  /\ TokenIdle
  /\ LimitIdle
  /\ FunctionIdle
  /\ TunnelIdle
QuerySpec == QueryInit /\ [][QueryNext]_vars

\* a token on its own
TokenSpec == FacadeInit /\ [][TokenNext]_vars

LimitSpec == FacadeInit /\ [][LimitNext]_vars

\* the library functions called one after another
FunctionSpec == FacadeInit /\ [][FunctionNext]_vars

\* the driver answers every call it was given (or fails it)
CapabilityFairness ==
  WF_vars(\E failed \in BOOLEAN, keys \in ColumnLists : getTableKeysReplied(failed, keys))

CapabilitySpec == FacadeInit /\ [][FunctionNext]_vars /\ CapabilityFairness

\* ------------------------------------------------------------ session claims

\* C1: a connect() called while an earlier connect() on the same session is in
\* flight is rejected with the connect-in-progress error, and a connect() called
\* when no earlier one is in flight is accepted.
C1_ConnectSerialized ==
  [][\A h \in Handles :
       connect(h) =>
         lastOp'.res = (IF InFlight(h) # {} THEN "ConnectInProgressError" ELSE "accepted")]_vars

\* C2: in every reachable state, a session that holds an adapter is not connecting.
C2_AdapterImpliesNotConnecting ==
  \A h \in Handles : db[h].connection # 0 => ~db[h].connecting

C9_AtMostOneOpenTunnel ==
  Cardinality({t \in Calls : tunnel[t].state = "listening"}) <= 1

\* C10: a tunnel's listener is closed by nothing other than ServerSession.end().
C10_TunnelClosedOnlyByEnd ==
  [][\A t \in Calls :
       (tunnel[t].state = "listening" /\ tunnel'[t].state # "listening") => end]_vars

\* C3: every delegating operation called on a session that has no adapter or is
\* connecting fails with the 'no connection available' error (and so never
\* reaches an adapter).
C3_GuardOnEveryOperation ==
  [][\A h \in Handles, op \in DelegatingOps :
       (callOp(h, op) /\ (db[h].connecting \/ db[h].connection = 0)) =>
          lastOp'.res = "NoConnectionError"]_vars

\* ------------------------------------------------------------ query handles

\* C4: on every engine, an execution whose statement was terminated by this
\* handle's cancel() while execute() was waiting for it rejects with an error
\* marked CANCELED_BY_USER, whichever of the driver's error and the
\* CancelableWait settles execute() first.
C4_CancelRejectsAsCanceled ==
  [][\A k \in Execs :
       (exec[k].pc = "race" /\ exec[k].killed /\ exec'[k].pc # "race")
         => (exec'[k].pc = "rejected" /\ exec'[k].out = "CANCELED_BY_USER")]_vars

\* C5: a cancel() issued at any moment between the call of execute() and its
\* settlement is accepted.
C5_CancelAnyTimeAfterExecute ==
  [][(cancel /\ \E k \in Execs : exec[k].pc \in {"acquire", "pidQuery", "race"})
       => lastCancel' = "accepted"]_vars

\* a handle on which execute() was called once
OnlyExec(k) == \A k2 \in Execs \ {k} : exec[k2].pc = "none"

\* C5 (amended): on a handle whose execute() was called once, the execution
\* identifier is recorded exactly while execute() waits for the statement, a
\* cancel() issued then is accepted, and a cancel() issued before that (while
\* the connection or the pid is being obtained) fails as not ready.
C5_CancelAcceptedOnceIdentified ==
  [][\A k \in Execs : (cancel /\ OnlyExec(k)) =>
       /\ exec[k].pc = "race" => lastCancel' = "accepted"
       /\ exec[k].pc \in {"acquire", "pidQuery"} => lastCancel' = "NotReadyError"]_vars

C5_Witness ==
  \E k \in Execs : OnlyExec(k) /\ exec[k].pc = "race" /\ lastCancel = "accepted"

\* C6: cancel() on a handle with no execution identifier recorded fails with
\* 'Query not ready to be canceled', issues no engine-native termination and
\* leaves the identifier, the canceling flag and the CancelableWait unchanged.
C6_NotReadyLeavesHandleAlone ==
  [][(cancel /\ pid = 0) =>
       /\ lastCancel' = "NotReadyError"
       /\ UNCHANGED <<pid, canceling, canceled, discarded, kill, exec>>]_vars

C6_Witness ==
  /\ lastCancel = "NotReadyError"
  /\ pid = 0
  /\ \E k \in Execs : exec[k].pc \in {"acquire", "pidQuery"}

\* C7: an error rejected by execute() carries the CANCELED_BY_USER marker only
\* if cancel() was invoked on that handle.
C7_MarkedOnlyAfterCancel ==
  \A k \in Execs : exec[k].out = "CANCELED_BY_USER" => cancelCalled

\* ------------------------------------------------------------ Server.end()

\* C11: when end() returns, every Database that was in the registry has been
\* disconnected (its adapter told to disconnect, connection null, connecting
\* false), the registry is empty, and the tunnel the server references, if any,
\* has been closed and the reference is null.
C11_EndDisconnectsEverything ==
  [][end =>
       /\ \A k \in DbKeys : databases'[k] = 0
       /\ \A k \in DbKeys : databases[k] # 0 =>
            LET h == databases[k] IN
            /\ db'[h].connection = 0 /\ ~db'[h].connecting
            /\ db[h].connection # 0 =>
                 adapter'[db[h].connection].disconnects = adapter[db[h].connection].disconnects + 1
       /\ sshTunnel' = 0
       /\ sshTunnel # 0 => tunnel'[sshTunnel].state = "closed"]_vars

\* end() has just returned on a server whose tunnel was open and which had a
\* connected Database among others
C11_Witness ==
  /\ lastOp.op = "end"
  /\ \E t \in Calls : tunnel[t].state = "closed" /\ localPort = t
  /\ \E a \in Calls : /\ call[a].pc = "resolved"
                      /\ adapter[a].connect = "ok" /\ adapter[a].disconnects = 1
                      /\ db[call[a].db].connection = 0
  /\ Cardinality({h \in Handles : db[h].created}) = MaxDb

\* ------------------------------------------------- Database.connect() failing

\* C12: a connect() in which the tunnel establishment, the adapter's connect()
\* or the tunnel's error event failed rejects with the first of those errors
\* and never resolves; when it rejects the Database has connection null and
\* connecting false and is not in the server's registry.
C12_FailedConnectCleansUp ==
  [][\A c \in Calls : call[c].pc \in {"awaitTunnel", "awaitAll"} =>
       /\ call'[c].pc = "rejected" =>
            /\ call[c].err # "none" /\ call'[c].err = call[c].err
            /\ call[c].err = "tunnel" => call[c].tunnelRes = "fail"
            /\ call[c].err = "adapter" => adapter[c].connect = "fail"
            /\ call[c].err = "ssh" => call[c].sshRes = "fail"
            /\ db'[call[c].db].connection = 0 /\ ~db'[call[c].db].connecting
            /\ \A k \in DbKeys : databases'[k] # call[c].db
       /\ call'[c].pc = "resolved" =>
            /\ call[c].err = "none"
            /\ call[c].tunnelRes # "fail" /\ adapter[c].connect = "ok" /\ call[c].sshRes = "ok"
       /\ (call[c].tunnelRes = "fail" \/ adapter[c].connect = "fail" \/ call[c].sshRes = "fail")
            => call[c].err # "none"]_vars

\* one connect() has rejected because the tunnel could not be established and
\* another because the adapter could not connect
C12_Witness ==
  \E c1, c2 \in Calls :
    /\ call[c1].pc = "rejected" /\ call[c1].err = "tunnel"
    /\ call[c2].pc = "rejected" /\ call[c2].err = "adapter" /\ adapter[c2].connect = "fail"
    /\ \A c \in {c1, c2} : /\ db[call[c].db].connection = 0
                           /\ ~db[call[c].db].connecting
                           /\ \A k \in DbKeys : databases[k] # call[c].db

\* ------------------------------------------------------ the registry of Server

\* C13: createConnection(name) returns the registered Database and creates no
\* new one for as long as the name is registered, and a Database stays
\* registered under its name from its creation until its own disconnect()
\* (called directly, by end() or by the catch of its connect()) removes it.
C13_CreateConnectionIdempotent ==
  [][/\ \A n \in DbNames : (createConnection(n) /\ databases[DbKey(n)] # 0)
          => UNCHANGED <<databases, db>>
     /\ \A k \in DbKeys : (databases[k] # 0 /\ databases'[k] # databases[k]) =>
          \/ disconnect(databases[k])
          \/ end
          \/ \E c \in Calls : /\ call[c].db = databases[k]
                              /\ call[c].pc # "rejected" /\ call'[c].pc = "rejected"]_vars

\* C14: registry keys are unique per database name: createConnection(n)
\* returns a Database of the name n, so two different names give two different
\* Databases and no real name gives the Database of 'no database selected'.
C14_KeysUniquePerName ==
  [][\A n \in RegistryNames :
       createConnection(n) => db'[databases'[DbKey(n)]].database = n]_vars

\* ------------------------------------------------------ Database.disconnect()

\* C15: disconnect() is idempotent: it returns without throwing, on a Database
\* without a connection it touches no adapter and leaves connection null and
\* connecting false, and a second disconnect() made right after the first would
\* change nothing (Database, adapters and registry are already what it makes them).
C15_DisconnectIdempotent ==
  [][\A h \in Handles : disconnect(h) =>
       /\ lastOp'.res = "returned"
       /\ db'[h].connection = 0 /\ ~db'[h].connecting
       /\ db[h].connection = 0 => adapter' = adapter
       /\ disconnectDb(h)' = db'
       /\ disconnectAdapter(adapter, h)' = adapter'
       /\ removeDatabase(databases, db[h].database)' = databases']_vars

\* disconnect() has just returned on a Database that connect() was never called on
C15_Witness ==
  /\ lastOp.op = "disconnect"
  /\ db[lastOp.h].connection = 0 /\ ~db[lastOp.h].connecting
  /\ \A c \in Calls : call[c].db # lastOp.h
  /\ \E c \in Calls : call[c].pc = "resolved"

\* C16: disconnect() clears the connecting flag, nulls the connection and
\* removes the Database from the registry in the call itself, while the
\* adapter's own disconnect() is still pending; the later success or failure
\* of that disconnect() changes neither the Database nor the registry.
C16_DisconnectIsImmediate ==
  [][/\ \A h \in Handles : disconnect(h) =>
          /\ ~db'[h].connecting /\ db'[h].connection = 0
          /\ \A k \in DbKeys : databases'[k] # h
          /\ db[h].connection # 0 =>
               /\ adapter'[db[h].connection].disconnects = adapter[db[h].connection].disconnects + 1
               /\ adapter'[db[h].connection].closed = adapter[db[h].connection].closed
     /\ \A a \in Calls : (adapterDisconnected(a) \/ adapterDisconnectFailed(a))
          => UNCHANGED <<db, databases>>]_vars

\* disconnect() has just returned on a connected Database and its adapter's
\* disconnect() has not settled yet
C16_Witness ==
  /\ lastOp.op = "disconnect"
  /\ db[lastOp.h].connection = 0 /\ ~db[lastOp.h].connecting
  /\ \A k \in DbKeys : databases[k] # lastOp.h
  /\ \E a \in Calls : /\ call[a].db = lastOp.h /\ call[a].pc = "resolved"
                      /\ adapter[a].connect = "ok"
                      /\ adapter[a].disconnects = 1 /\ adapter[a].closed = "none"

\* C17: in every reachable state at most one connect() invocation per Database
\* has started its work and not yet settled.
C17_OneConnectInFlight ==
  \A h \in Handles : Cardinality(InFlight(h)) <= 1

\* ------------------------------------------------ Databases sharing a tunnel

\* C18: Databases that share a tunnel are independent: the handleSSHError
\* promise of a connect() is settled (resolved by a forward success, rejected by
\* a forward or SSH error) only by an event of that connect()'s own connection
\* through the tunnel, never by an event of another Database's connection.
C18_SharedTunnelIndependent ==
  [][\A c \in Calls :
       (call[c].pc = "awaitAll" /\ call[c].sshRes = "pending" /\ call'[c].sshRes \in {"ok", "fail"})
         => (lastOp'.op \in {"forwardSuccess", "forwardError", "clientError"} /\ lastOp'.h = c)]_vars

\* ------------------------------------------------------------ CancelableWait

\* C19: wait() settles only after cancel() or discard() has been called on the
\* token; it rejects with the CanceledByUser error if cancel() was the trigger
\* (the first of the two to be called) and resolves if discard() was; while
\* neither has been called it stays pending.
C19_WaitSettlesByTrigger ==
  \A w \in Waits :
    /\ waits[w].pc \in {"resolved", "rejected"} => trigger # "none"
    /\ (waits[w].pc # "none" /\ trigger = "none") => waits[w].pc = "polling"
    /\ (waits[w].pc \in {"resolved", "rejected"} /\ trigger = "cancel")
         => (waits[w].pc = "rejected" /\ waits[w].err = CanceledByUserError)
    /\ (waits[w].pc \in {"resolved", "rejected"} /\ trigger = "discard")
         => waits[w].pc = "resolved"

\* ------------------------------------------------------------ the select limit

\* what the calls made so far say the limit is: the value of the most recent
\* setSelectLimit when no clearSelectLimit followed it
LastSetting(log) ==
  IF log # << >> /\ log[Len(log)].op = "set" THEN log[Len(log)].limit ELSE {}

\* C20: after any sequence of setSelectLimit / clearSelectLimit calls and for
\* every Database, getQuerySelectTop uses the call-site limit when one is given,
\* otherwise the value of the most recent setSelectLimit if no clearSelectLimit
\* followed it, otherwise the default 1000.
C20_SelectLimitPrecedence ==
  [][\A h \in Handles, limit \in OptLimits :
       (getQuerySelectTop(h, limit) /\ checkIsConnected(h)) =>
         selectTop'.limit = (IF limit # {} THEN limit
                             ELSE IF LastSetting(settings) # {} THEN LastSetting(settings)
                             ELSE {1000})]_vars

\* a Database other than the first was asked without a call-site limit after
\* set, clear, set(0) and used 0
C20_Witness ==
  /\ selectTop.h = MaxDb /\ selectTop.given = {} /\ selectTop.limit = {0}
  /\ Len(settings) = MaxSettings
  /\ settings[2].op = "clear" /\ settings[3] = [op |-> "set", limit |-> {0}]

\* ------------------------------------------------------------ createServer

\* C21: createServer(config) returns a Server exactly when the config's adapter
\* key, or its client key when no adapter key is given, is the key of a
\* registered adapter; otherwise it throws and no Server is made.
C21_CreateServerChecksAdapter ==
  (ret.fn = "createServer") =>
    LET cfg == ret.config
        key == IF cfg.adapter \notin {{}, {""}} THEN cfg.adapter ELSE cfg.client
    IN  /\ (ret.out = "Server") <=> (cfg.given /\ key \subseteq ADAPTERS /\ key \notin {{}, {""}})
        /\ ret.out # "Server" => ret.out \in {"Missing server configuration", "Invalid SQL adapter"}

\* a Server was made from the client key alone, for an adapter registered at run time
C21_Witness ==
  /\ ret.fn = "createServer" /\ ret.out = "Server"
  /\ ret.config.adapter = {} /\ ret.config.client = {"custom"}

\* ------------------------------------------------------------ adapter functions

\* C22: on the Cassandra adapter query() fails with the 'not implemented'
\* error for every query text and every adapter state; it returns no handle
\* and executes nothing.
C22_CassandraQueryNotImplemented ==
  (ret.fn = "query" /\ ret.class = "cassandra") =>
    /\ ret.out = "\"query\" function is not implementd by cassandra client."
    /\ ret.out # "QueryReturn"
    /\ ~ret.executed

C22_Witness ==
  /\ ret.fn = "query" /\ ret.class = "cassandra"
  /\ ret.connected /\ ret.text # ""
  /\ ret.out # "QueryReturn"

\* C23: every result executeQuery returns carries as command the kind of the
\* statement of the batch that produced it, also for batches that mix
\* statements returning rows with statements returning none.
C23_ResultsZippedWithKinds ==
  (ret.fn = "executeQuery") =>
    \A i \in DOMAIN ret.out :
      ret.out[i].from # 0 => ret.out[i].command = ret.batch[ret.out[i].from].kind

\* C24: for a batch of N data-modifying statements executeQuery returns N
\* results, each with that statement's affectedRows and rowCount undefined, on
\* postgresql, mysql and sqlite, and exactly one aggregated result with
\* affectedRows the sum over the batch and rowCount 0 on SQL Server.
C24_ModifyingBatchResults ==
  (ret.fn = "executeQuery" /\ \A i \in DOMAIN ret.batch : ret.batch[i].kind # "SELECT") =>
    IF ret.class = "sqlserver"
      THEN /\ Len(ret.out) = 1
           /\ ret.out[1].affectedRows = {sumRows(ret.batch, Len(ret.batch))}
           /\ ret.out[1].rowCount = {0}
      ELSE /\ Len(ret.out) = Len(ret.batch)
           /\ \A i \in DOMAIN ret.batch :
                /\ ret.out[i].affectedRows = {ret.batch[i].n}
                /\ ret.out[i].rowCount = {}

\* C25: a name passes a schema / database filter exactly when no filter is
\* given, or the filter is a bare string equal to the name, or the filter is
\* structured and (only is empty or holds the name) and (ignore is empty or
\* does not hold the name).
C25_FilterSemantics ==
  (ret.fn = "filter") =>
    LET f == ret.filter IN
    (ret.out = "pass") <=>
      \/ f.kind = "none"
      \/ f.kind = "string" /\ f.value = ret.name
      \/ /\ f.kind = "structured"
         /\ f.only = {} \/ ret.name \in f.only
         /\ f.ignore = {} \/ ret.name \notin f.ignore

\* C26: for every engine and every identifier other than '*', the text made by
\* wrapIdentifier reads back, under the engine's quoting rules, as exactly the
\* identifier: nothing is dropped and nothing ends the quoting early.
C26_WrapIdentifierRoundTrips ==
  (ret.fn = "wrap" /\ ret.identifier # <<"*">>) =>
    ret.back = [ok |-> TRUE, value |-> ret.identifier]

\* the names of a script, in the order they appear
NamesOf(script) ==
  LET names == SelectSeq(script, LAMBDA piece : piece.kind = "name")
  IN [i \in 1..Len(names) |-> names[i].v]

\* C27: the SELECT / INSERT / UPDATE / DELETE scripts are determined by the
\* column names, table, schema and wrapIdentifier: the names of the script are
\* the wrapped columns in listTableColumns order (none for DELETE) and the
\* wrapped table, the table is preceded by the wrapped schema and a dot exactly
\* when a non-empty schema is given, and the INSERT script has one '?' per column.
C27_ScriptsWrapNamesInOrder ==
  (ret.fn = "script") =>
    LET W(n) == wrapIdentifier(ret.class, n)
        cols == IF ret.kind = "delete" THEN << >>
                ELSE [i \in 1..Len(ret.columnNames) |-> W(ret.columnNames[i])]
        given == ret.schema # {} /\ ret.schema # {<< >>}
        qualified == IF given THEN <<W(CHOOSE n \in ret.schema : TRUE), W(ret.table)>>
                     ELSE <<W(ret.table)>>
        at == CHOOSE i \in 1..Len(ret.out) :
                /\ ret.out[i].kind = "name"
                /\ Len(SelectSeq(SubSeq(ret.out, 1, i), LAMBDA piece : piece.kind = "name"))
                     = (IF ret.kind = "select" THEN Len(cols) ELSE 0) + Len(qualified)
    IN /\ NamesOf(ret.out) = (IF ret.kind = "select" THEN cols \o qualified ELSE qualified \o cols)
       /\ \A i \in 1..Len(ret.out) : ret.out[i].kind = "text" => ret.out[i].v[1] # ""
       /\ given <=> (at > 2 /\ ret.out[at - 1] = written(".") /\ ret.out[at - 2].kind = "name")
       /\ ret.kind = "insert" =>
            Len(SelectSeq(ret.out, LAMBDA piece : piece = written("?"))) = Len(ret.columnNames)

\* C27 witness: an INSERT script for two columns of a table in a schema
C27_Witness ==
  /\ ret.fn = "script" /\ ret.kind = "insert"
  /\ Len(ret.columnNames) = 2 /\ ret.schema = {<<"a">>}
  /\ Len(SelectSeq(ret.out, LAMBDA piece : piece = written("?"))) = 2

\* C28: connect() resolves only if Adapter.connect() resolved and, when the
\* server has a tunnel, the first tunnel event this invocation observed was a
\* success; at the moment it resolves the Database holds the adapter this
\* invocation created and connecting is false.
C28_ConnectResolvesOnlyWhenBothSucceeded ==
  [][\A c \in Calls :
       (call[c].pc # "resolved" /\ call'[c].pc = "resolved") =>
         /\ call[c].pc = "awaitAll"
         /\ adapter[c].connect = "ok"
         /\ call[c].tunnelRes # "fail"
         /\ call[c].listenOn # 0 => call[c].seen = "ok"
         /\ (ssh /\ sshTunnel # 0) => call[c].listenOn # 0
         /\ db'[call[c].db].connection = c
         /\ ~db'[call[c].db].connecting]_vars

\* C28 witness: a connect() through the tunnel has resolved and the Database holds its adapter
C28_Witness ==
  \E c \in Calls :
    /\ call[c].pc = "resolved"
    /\ adapter[c].port # 0 /\ adapter[c].fwd
    /\ db[call[c].db].connection = c
    /\ ~db[call[c].db].connecting

\* C29: whenever connect() has set connecting, the flag is eventually cleared,
\* and every connect() invocation eventually settles, provided the adapter's
\* connect() and the creation of the tunnel settle.
C29_ConnectEventuallySettles ==
  /\ \A h \in Handles : db[h].connecting ~> ~db[h].connecting
  /\ \A c \in Calls :
       (call[c].pc \in {"awaitTunnel", "awaitAll"}) ~> (call[c].pc \in {"resolved", "rejected"})

\* C30: after end() has closed the tunnel, and before its 'close' event, every
\* tracked inbound socket and every tracked SSH client of the tunnel is
\* eventually ended, also when a socket is still open at that moment.
C30_EndTerminatesTunnelConnections ==
  \A s \in Inbounds :
    LET closing == /\ lastOp.op = "end"
                   /\ inbound[s].on # 0
                   /\ tunnel[inbound[s].on].state = "closed"
                   /\ inbound[s].on \notin closeEvent
    IN /\ (closing /\ inbound[s].conn = "open") ~> (inbound[s].conn = "ended")
       /\ (closing /\ inbound[s].client = "ready") ~> (inbound[s].client = "ended")

\* C31: disconnect() leaves the Database without an adapter, and a connect()
\* that was in flight when disconnect() was called does not give it one: when an
\* invocation of connect() stores its adapter, the connecting flag it set has
\* not been cleared by a disconnect() in between.
C31_DisconnectStaysIdle ==
  [][/\ \A h \in Handles : disconnect(h) => db'[h].connection = 0
     /\ \A c \in Calls :
          (call[c].pc = "awaitAll" /\ call'[c].pc = "resolved") =>
             db[call[c].db].connecting]_vars

\* C32: in every reachable state a Database that holds an adapter is the entry
\* registered under its name in the server's registry.
C32_ConnectedIsRegistered ==
  \A h \in Handles : db[h].connection # 0 => databases[DbKey(db[h].database)] = h

\* C33: when end() returns, no Database created from the server holds an adapter.
C33_EndLeavesNoAdapter ==
  [][end => \A h \in Handles : db'[h].connection = 0]_vars

\* C34: once a connect() has rejected, the adapter that invocation constructed,
\* if it constructed one, has had its disconnect() called.
C34_FailedConnectDisconnectsAdapter ==
  \A c \in Calls :
    (call[c].pc = "rejected" /\ adapter[c].connect # "none") => adapter[c].disconnects > 0

\* ----------------------------------------------- the query handle, continued

\* execute() invocations that have been called and have not settled
Executing == {k \in Execs : exec[k].pc \in {"acquire", "pidQuery", "race"}}

\* C35: a cancel() called when execute() has settled and none is executing
\* fails with the not-ready error and sends no kill, cancel or interrupt.
C35_NoTerminationAfterSettlement ==
  [][(cancel /\ Executing = {} /\ \E k \in Execs : exec[k].pc \in {"resolved", "rejected"})
       => /\ pid = 0
          /\ lastCancel' = "NotReadyError"
          /\ UNCHANGED <<kill, exec>>]_vars

\* C36: on postgresql and mysql, the kill sent by cancel() never terminates a
\* statement of another handle or operation.
C36_KillHitsOnlyOwnStatement ==
  \A k \in Execs : exec[k].other # "killed"

\* C37: a connection taken from the pool for execute() goes back to the pool
\* only after the statement issued on it has settled at the driver.
C37_ConnectionDedicatedUntilSettled ==
  \A k \in Execs : (hasCancelable(engine) /\ released(k)) => exec[k].stmt # "running"

\* C38: disconnect() of a Database changes no registry entry other than its
\* own: a different Database registered under the same name stays registered.
C38_DisconnectRemovesOnlyOwnEntry ==
  [][\A h \in Handles : disconnect(h) =>
       \A k \in DbKeys : (databases[k] # 0 /\ databases[k] # h) => databases'[k] = databases[k]]_vars

\* C39: on postgresql and mysql, whenever execute() resolves it resolves with
\* the parsed results of the query, never with the value of the wait side of
\* the race, on the first and on every later call of execute().
C39_ResolvesWithParsedResults ==
  \A k \in Execs :
    (hasCancelable(engine) /\ exec[k].pc = "resolved") => exec[k].out = "data"

\* C40: every call of the capability getTableKeys eventually settles, with the
\* keys or with the empty default; on the Cassandra adapter with no keyspace
\* selected it settles with the empty list.
C40_GetTableKeysSettles ==
  (ret.fn = "getTableKeys") ~>
     /\ ret.fn = "getTableKeys"
     /\ ret.pc \in {"resolved", "rejected"}
     /\ (ret.class = "cassandra" /\ ret.database = {}) => (ret.pc = "resolved" /\ ret.out = << >>)

====
